---- MODULE Spec2Model ----
(***************************************************************************)
(* Keystore V4 decryption (Cryptor.Decrypt / decryptNorm).                 *)
(*                                                                         *)
(* Byte strings are sequences of integers 0..255.  Text fields of the      *)
(* record (hex strings) are sequences of one-character strings.  A         *)
(* passphrase is a sequence of Unicode code points.                        *)
(***************************************************************************)
EXTENDS Integers, Sequences, FiniteSets, TLC

(* ---------------------------------------------------------------------- *)
(* Bounds of the model                                                    *)
(* ---------------------------------------------------------------------- *)
\* secrets of 1..MaxSecretLen bytes are encrypted into the records
MaxSecretLen == 2

(* ---------------------------------------------------------------------- *)
(* Program constants                                                      *)
(* ---------------------------------------------------------------------- *)
\* len(decryptionKey) < 32 is rejected; the checksum covers key[16:32]
MinKeyLen == 32
\* decryptionKey[:16] is the AES key; decryptionKey[16:32] enters the checksum
AesKeyLen == 16
\* aes.BlockSize: cipher.NewCTR panics unless len(iv) equals it
BlockSize == 16
\* sha256.Size: length of h.Sum(nil)
Sha256Size == 32

(* ---------------------------------------------------------------------- *)
(* Generic helpers                                                        *)
(* ---------------------------------------------------------------------- *)
Rep(x, n) == [i \in 1..n |-> x]

SubSeqFrom(s, lo, hi) == [i \in 1..(hi - lo) |-> s[lo + i]]

RECURSIVE WSum(_, _)
\* position-weighted sum of a byte string, used by the stand-ins for the
\* library primitives below
WSum(s, i) == IF i > Len(s) THEN 0 ELSE (i * s[i] + 7 * i + WSum(s, i + 1)) % 251

RECURSIVE Xor(_, _, _)
\* bitwise exclusive or of two bytes, w bits wide
Xor(a, b, w) ==
  IF w = 0 THEN 0
  ELSE ((a + b) % 2) + 2 * Xor(a \div 2, b \div 2, w - 1)

(* ---------------------------------------------------------------------- *)
(* encoding/hex                                                           *)
(* ---------------------------------------------------------------------- *)
LowerDigits == <<"0","1","2","3","4","5","6","7","8","9","a","b","c","d","e","f">>
UpperDigits == <<"0","1","2","3","4","5","6","7","8","9","A","B","C","D","E","F">>

\* the value of each hex digit, either case
HexTable ==
  [c \in {LowerDigits[i] : i \in 1..16} \cup {UpperDigits[i] : i \in 1..16} |->
     IF \E i \in 1..16 : LowerDigits[i] = c
     THEN (CHOOSE i \in 1..16 : LowerDigits[i] = c) - 1
     ELSE (CHOOSE i \in 1..16 : UpperDigits[i] = c) - 1]

\* value of one hex digit, -1 when the character is no hex digit
HexVal(c) == IF c \in DOMAIN HexTable THEN HexTable[c] ELSE -1

\* variant: only the length is checked, a non-hex character passes
HexLengthOnly(s) == Len(s) % 2 = 0

\* hex.DecodeString returns an error for an odd length or a non-hex character
HexDecodeOK(s) ==
  /\ Len(s) % 2 = 0
  /\ \A i \in 1..Len(s) : HexVal(s[i]) >= 0

HexDecode(s) ==
  [i \in 1..(Len(s) \div 2) |-> 16 * HexVal(s[2 * i - 1]) + HexVal(s[2 * i])]

\* hex.EncodeToString (lower case), used to build the stored fields
HexEncode(b) ==
  [i \in 1..(2 * Len(b)) |->
     IF i % 2 = 1 THEN LowerDigits[(b[(i + 1) \div 2] \div 16) + 1]
     ELSE LowerDigits[(b[i \div 2] % 16) + 1]]

HexEncodeUpper(b) ==
  [i \in 1..(2 * Len(b)) |->
     IF i % 2 = 1 THEN UpperDigits[(b[(i + 1) \div 2] \div 16) + 1]
     ELSE UpperDigits[(b[i \div 2] % 16) + 1]]

(* ---------------------------------------------------------------------- *)
(* Library primitives.  The digest, the two key derivation functions and  *)
(* the AES key stream are deterministic stand-ins with the shape of the   *)
(* library calls: same arguments, same output length, same error cases.   *)
(* ---------------------------------------------------------------------- *)
\* sha256 of msg: 32 bytes; distinct messages shorter than 32 bytes have
\* distinct digests (the digest keeps every byte and the length)
Sha256(msg) ==
  [i \in 1..Sha256Size |->
     IF i = Sha256Size THEN Len(msg) % 256
     ELSE IF i <= Len(msg) THEN (msg[i] + 92 + i) % 256
     ELSE i]

IsPowerOfTwo(n) == \E k \in 0..30 : n = 2 ^ k

\* scrypt.Key rejects N <= 1, N not a power of two and r*p >= 2^30
ScryptParamsOK(N, r, p) ==
  /\ N > 1
  /\ IsPowerOfTwo(N)
  /\ r > 0
  /\ p > 0
  /\ r * p < 2 ^ 30

ScryptKey(pass, salt, N, r, p, dklen) ==
  LET base == WSum(pass, 1) + 3 * WSum(salt, 1) + N + r + p + 1 IN
  [i \in 1..dklen |-> (base + 5 * i) % 256]

\* pbkdf2.Key has no error result
Pbkdf2Key(pass, salt, c, dklen) ==
  LET base == WSum(pass, 1) + 3 * WSum(salt, 1) + c + 2 IN
  [i \in 1..dklen |-> (base + 11 * i) % 256]

\* byte i of the counter-mode key stream under an AES key and an IV
KeyStream(key, iv, i) == (WSum(key, 1) + 5 * WSum(iv, 1) + 31 * i) % 256

\* stream.XORKeyStream(res, cipherMsg): output as long as the input
XORKeyStream(key, iv, msg) ==
  [i \in 1..Len(msg) |-> Xor(msg[i], KeyStream(key, iv, i), 8)]

(* ---------------------------------------------------------------------- *)
(* Passphrase normalisation                                               *)
(* ---------------------------------------------------------------------- *)
\* compatibility decomposition of one code point
NFKD1(cp) ==
  IF cp = 233 THEN <<101, 769>>          \* e-acute -> e, combining acute
  ELSE IF cp = 64257 THEN <<102, 105>>   \* fi ligature -> f, i
  ELSE <<cp>>

RECURSIVE NFKD(_)
NFKD(s) == IF s = <<>> THEN <<>> ELSE NFKD1(Head(s)) \o NFKD(Tail(s))

\* C0 controls, delete, and the range 0x80..0x9f
IsControl(v) == v <= 31 \/ v = 127 \/ (v >= 128 /\ v <= 159)

Utf8One(cp) ==
  IF cp < 128 THEN <<cp>>
  ELSE IF cp < 2048 THEN <<192 + (cp \div 64), 128 + (cp % 64)>>
  ELSE <<224 + (cp \div 4096), 128 + ((cp \div 64) % 64), 128 + (cp % 64)>>

RECURSIVE Utf8(_)
Utf8(s) == IF s = <<>> THEN <<>> ELSE Utf8One(Head(s)) \o Utf8(Tail(s))

RECURSIVE StripControl(_)
StripControl(s) ==
  IF s = <<>> THEN <<>>
  ELSE IF IsControl(Head(s)) THEN StripControl(Tail(s))
  ELSE <<Head(s)>> \o StripControl(Tail(s))

\* primary: NFKD, control code points removed, then the UTF-8 bytes
normPassphrase(input) == Utf8(StripControl(NFKD(input)))

\* alternate: NFKD, then the control values removed from the UTF-8 bytes
altNormPassphrase(input) == StripControl(Utf8(NFKD(input)))

(* ---------------------------------------------------------------------- *)
(* The record: untyped input, typed keystoreV4, and the JSON round trip   *)
(* ---------------------------------------------------------------------- *)
\* a params object; the fields a JSON object leaves out keep Go's zero value
NoParams ==
  [tag |-> "absent", salt |-> <<>>, dklen |-> 0, n |-> 0, r |-> 0, p |-> 0,
   c |-> 0, prf |-> "", iv |-> <<>>]

\* a value of the untyped map: tag is "absent" (no such key), "object",
\* "string" (a JSON string where an object is expected) or "chan" (a Go value
\* json.Marshal cannot encode)
NoValue == [tag |-> "absent", function |-> "", params |-> NoParams, message |-> <<>>]

Object(f, ps, m) == [tag |-> "object", function |-> f, params |-> ps, message |-> m]

NilData == [nil |-> TRUE, kdf |-> NoValue, checksum |-> NoValue, cipher |-> NoValue]

\* json.Marshal fails on a value it cannot encode
MarshalOK(d) ==
  \A v \in {d.kdf, d.checksum, d.cipher} : v.tag # "chan"

\* json.Unmarshal fails when a field has the wrong JSON type
UnmarshalOK(d) ==
  \A v \in {d.kdf, d.checksum, d.cipher} : v.tag # "string"

\* ksKDFParams / ksCipherParams behind a pointer
TypedParams(ps) ==
  [isNil |-> ps.tag # "object", Salt |-> ps.salt, DKLen |-> ps.dklen, N |-> ps.n,
   R |-> ps.r, P |-> ps.p, C |-> ps.c, PRF |-> ps.prf, IV |-> ps.iv]

\* ksKDF / ksChecksum / ksCipher behind a pointer
TypedSub(v) ==
  [isNil |-> v.tag # "object", Function |-> v.function,
   Params |-> TypedParams(v.params), Message |-> v.message]

\* keystoreV4 as json.Unmarshal fills it
Unmarshal(d) ==
  [KDF |-> TypedSub(d.kdf), Checksum |-> TypedSub(d.checksum), Cipher |-> TypedSub(d.cipher)]

NoKeystore == Unmarshal(NilData)

(* ---------------------------------------------------------------------- *)
(* Errors and results                                                     *)
(* ---------------------------------------------------------------------- *)
NoErr == [msg |-> "", name |-> ""]
\* errors.New(msg)
Err(m) == [msg |-> m, name |-> ""]
\* fmt.Errorf(msg + " %q", name)
ErrQ(m, nm) == [msg |-> m, name |-> nm]

\* outcome of a block of decryptNorm: kind "ok" (val is its value), "err" (the
\* function returns err) or "panic" (the run-time aborts the call); ev lists
\* the operations the block carried out, in order
Ok(v, ev) == [kind |-> "ok", val |-> v, err |-> NoErr, ev |-> ev]
Fail(e, ev) == [kind |-> "err", val |-> <<>>, err |-> e, ev |-> ev]
Panic(ev) == [kind |-> "panic", val |-> <<>>, err |-> NoErr, ev |-> ev]

(* ---------------------------------------------------------------------- *)
(* decryptNorm, block by block                                            *)
(* ---------------------------------------------------------------------- *)
\* variant: an unknown function or PRF falls through to pbkdf2
KdfDispatchDefaultPbkdf2(kdf, salt, pass) ==
  LET ps == kdf.Params IN
  IF kdf.Function = "scrypt" /\ ~ScryptParamsOK(ps.N, ps.R, ps.P)
  THEN Fail(Err("invalid KDF parameters"), <<"decodeSalt", "scrypt">>)
  ELSE IF kdf.Function = "scrypt"
  THEN Ok(ScryptKey(pass, salt, ps.N, ps.R, ps.P, ps.DKLen), <<"decodeSalt", "scrypt">>)
  ELSE Ok(Pbkdf2Key(pass, salt, ps.C, ps.DKLen), <<"decodeSalt", "pbkdf2">>)

\* the KDF dispatch once the salt is decoded
KdfDispatch(kdf, salt, pass) ==
  LET ps == kdf.Params IN
  IF kdf.Function = "scrypt" THEN
    IF ScryptParamsOK(ps.N, ps.R, ps.P)
    THEN Ok(ScryptKey(pass, salt, ps.N, ps.R, ps.P, ps.DKLen), <<"decodeSalt", "scrypt">>)
    ELSE Fail(Err("invalid KDF parameters"), <<"decodeSalt", "scrypt">>)
  ELSE IF kdf.Function = "pbkdf2" THEN
    IF ps.PRF = "hmac-sha256"
    THEN Ok(Pbkdf2Key(pass, salt, ps.C, ps.DKLen), <<"decodeSalt", "pbkdf2">>)
    ELSE Fail(ErrQ("unsupported PBKDF2 PRF", ps.PRF), <<"decodeSalt">>)
  ELSE Fail(ErrQ("unsupported KDF", kdf.Function), <<"decodeSalt">>)

\* "Decryption key": the passphrase itself without a KDF, else the derived key
DecryptionKey(k, pass) ==
  IF k.KDF.isNil THEN Ok(pass, <<>>)
  ELSE IF k.KDF.Params.isNil THEN Panic(<<>>)
  ELSE IF ~HexDecodeOK(k.KDF.Params.Salt)
  THEN Fail(Err("invalid KDF salt"), <<"decodeSalt">>)
  ELSE KdfDispatch(k.KDF, HexDecode(k.KDF.Params.Salt), pass)

\* variant: a key of exactly 32 bytes is rejected too
KeyTooShortOffByOne(key) == Len(key) <= MinKeyLen

\* len(decryptionKey) < 32
KeyTooShort(key) == Len(key) < MinKeyLen

\* the bytes of the key the checksum covers: decryptionKey[16:32]
ChecksumKeyPart(key) == SubSeqFrom(key, AesKeyLen, MinKeyLen)

\* the digest of key[16:32] followed by the cipher message
ComputeChecksum(key, msg) == Sha256(ChecksumKeyPart(key) \o msg)

\* variant: the comparison is left out
ChecksumNotCompared(checksum, checksumMsg) == TRUE

\* bytes.Equal(checksum, checksumMsg)
ChecksumEqual(checksum, checksumMsg) == checksum = checksumMsg

\* "Checksum": val is the decoded cipher message
VerifyChecksum(k, key) ==
  IF KeyTooShort(key)
  THEN Fail(Err("decryption key must be at least 32 bytes"), <<"keyLen">>)
  ELSE IF ~HexDecodeOK(k.Cipher.Message)
  THEN Fail(Err("invalid cipher message"), <<"keyLen", "decodeCipherMsg">>)
  ELSE IF ~HexDecodeOK(k.Checksum.Message)
  THEN Fail(Err("invalid checksum message"),
            <<"keyLen", "decodeCipherMsg", "digest", "decodeChecksum">>)
  ELSE IF ~ChecksumEqual(ComputeChecksum(key, HexDecode(k.Cipher.Message)),
                         HexDecode(k.Checksum.Message))
  THEN Fail(Err("invalid checksum"),
            <<"keyLen", "decodeCipherMsg", "digest", "decodeChecksum", "compare">>)
  ELSE Ok(HexDecode(k.Cipher.Message),
          <<"keyLen", "decodeCipherMsg", "digest", "decodeChecksum", "compare">>)

\* the AES key: decryptionKey[:16]
AesKey(key) == SubSeqFrom(key, 0, AesKeyLen)

\* "Decrypt": val is the plaintext
CipherDecrypt(k, key, msg) ==
  IF k.Cipher.Function = "aes-128-ctr" THEN
    IF k.Cipher.Params.isNil THEN Panic(<<"dispatch", "aesNewCipher">>)
    ELSE IF ~HexDecodeOK(k.Cipher.Params.IV)
    THEN Fail(Err("invalid IV"), <<"dispatch", "aesNewCipher", "decodeIV">>)
    ELSE IF Len(HexDecode(k.Cipher.Params.IV)) # BlockSize
    THEN Panic(<<"dispatch", "aesNewCipher", "decodeIV", "newCTR">>)
    ELSE Ok(XORKeyStream(AesKey(key), HexDecode(k.Cipher.Params.IV), msg),
            <<"dispatch", "aesNewCipher", "decodeIV", "newCTR", "xorKeyStream">>)
  ELSE Fail(ErrQ("unsupported cipher", k.Cipher.Function), <<"dispatch">>)

\* decryptNorm as a whole: the three blocks in order, the first failure ends it
decryptNorm(k, pass) ==
  LET d == DecryptionKey(k, pass) IN
  IF d.kind # "ok" THEN d
  ELSE LET v == VerifyChecksum(k, d.val) IN
       IF v.kind # "ok" THEN v
       ELSE CipherDecrypt(k, d.val, v.val)

(* ---------------------------------------------------------------------- *)
(* Inputs: passphrases and records                                        *)
(* ---------------------------------------------------------------------- *)
\* 'a' x 32
PassA == Rep(97, 32)
\* as PassA but for byte 0
PassB0 == <<98>> \o Rep(97, 31)
\* as PassA but for byte 16
PassB16 == Rep(97, 16) \o <<98>> \o Rep(97, 15)
\* a tab in front of PassA: both normalisations give PassA
PassTab == <<9>> \o PassA
\* an e-acute at position 16: the two normalisations differ from byte 18 on
PassAcute16 == Rep(97, 16) \o <<233>> \o Rep(97, 15)
\* an e-acute in front of PassA: the two normalisations differ, bytes 16..31 agree
PassAcute0 == <<233>> \o PassA
PassShort == <<97, 98>>

Passphrases == {PassA, PassB0, PassB16, PassTab, PassAcute16, PassAcute0, PassShort, <<>>}

Secrets == {[i \in 1..n |-> (17 * i) % 256] : n \in 1..MaxSecretLen}

GoodSalt == <<"0", "1", "a", "B">>
BadHex == <<"0", "g">>
GoodIV == HexEncode([i \in 1..BlockSize |-> i])
ShortIV == HexEncode([i \in 1..(BlockSize \div 2) |-> i])

ScryptParams(salt, N, dklen) ==
  [NoParams EXCEPT !.tag = "object", !.salt = salt, !.n = N, !.r = 8, !.p = 1,
                   !.dklen = dklen]

Pbkdf2Params(salt, prf, dklen) ==
  [NoParams EXCEPT !.tag = "object", !.salt = salt, !.c = 2, !.prf = prf,
                   !.dklen = dklen]

ScryptGood == Object("scrypt", ScryptParams(GoodSalt, 4, 32), <<>>)
Pbkdf2Good == Object("pbkdf2", Pbkdf2Params(GoodSalt, "hmac-sha256", 32), <<>>)

KdfInputs ==
  { NoValue,
    [NoValue EXCEPT !.tag = "string"],
    [NoValue EXCEPT !.tag = "chan"],
    Object("scrypt", NoParams, <<>>),
    ScryptGood,
    Object("scrypt", ScryptParams(GoodSalt, 3, 32), <<>>),
    Pbkdf2Good,
    Object("pbkdf2", Pbkdf2Params(GoodSalt, "hmac-sha256", 16), <<>>),
    Object("pbkdf2", Pbkdf2Params(GoodSalt, "foo", 32), <<>>),
    Object("pbkdf2", Pbkdf2Params(BadHex, "hmac-sha256", 32), <<>>),
    Object("foo", Pbkdf2Params(GoodSalt, "hmac-sha256", 32), <<>>),
    Object("foo", Pbkdf2Params(BadHex, "hmac-sha256", 32), <<>>) }

\* the normalised passphrases the records are encrypted under
ProducerBytes ==
  {normPassphrase(PassA), normPassphrase(PassAcute16), altNormPassphrase(PassAcute16),
   altNormPassphrase(PassAcute0)}

\* the key a record is encrypted under: the key its KDF derives from src, or
\* fixed bytes when the record's KDF derives none
ProducerKey(kdfV, src) ==
  LET d == DecryptionKey(Unmarshal([NilData EXCEPT !.kdf = kdfV]), src) IN
  IF d.kind = "ok" /\ Len(d.val) >= MinKeyLen THEN d.val ELSE Rep(66, MinKeyLen)

CipherDefects == {"none", "absent", "noParams", "function", "ivHex", "ivLen", "messageHex"}
ChecksumDefects == {"none", "absent", "hex", "wrong", "upper"}

\* the cipher sub-record for a secret under a key, with one defect
CipherInput(key, secret, defect) ==
  LET ct == XORKeyStream(AesKey(key), HexDecode(GoodIV), secret)
      ps(iv) == [NoParams EXCEPT !.tag = "object", !.iv = iv]
  IN CASE defect = "absent" -> NoValue
       [] defect = "noParams" -> Object("aes-128-ctr", NoParams, HexEncode(ct))
       [] defect = "function" -> Object("foo", ps(GoodIV), HexEncode(ct))
       [] defect = "ivHex" -> Object("aes-128-ctr", ps(BadHex), HexEncode(ct))
       [] defect = "ivLen" -> Object("aes-128-ctr", ps(ShortIV), HexEncode(ct))
       [] defect = "messageHex" -> Object("aes-128-ctr", ps(GoodIV), BadHex)
       [] OTHER -> Object("aes-128-ctr", ps(GoodIV), HexEncode(ct))

\* the checksum sub-record for a key and a cipher sub-record, with one defect
ChecksumInput(key, cipherV, defect) ==
  LET msg == IF HexDecodeOK(cipherV.message) THEN HexDecode(cipherV.message) ELSE <<>>
      sum == ComputeChecksum(key, msg)
  IN CASE defect = "absent" -> NoValue
       [] defect = "hex" -> Object("sha256", NoParams, BadHex)
       [] defect = "wrong" -> Object("sha256", NoParams, HexEncode(Sha256(sum)))
       [] defect = "upper" -> Object("sha256", NoParams, HexEncodeUpper(sum))
       [] OTHER -> Object("sha256", NoParams, HexEncode(sum))

Record(kdfV, src, secret, cdef, sdef) ==
  LET key == ProducerKey(kdfV, src)
      cipherV == CipherInput(key, secret, cdef)
  IN [nil |-> FALSE, kdf |-> kdfV, checksum |-> ChecksumInput(key, cipherV, sdef),
      cipher |-> cipherV]

Records ==
  {NilData} \cup
  { Record(kdfV, src, secret, cdef, sdef) :
      kdfV \in KdfInputs, src \in ProducerBytes, secret \in Secrets,
      cdef \in CipherDefects, sdef \in ChecksumDefects }

(* ---------------------------------------------------------------------- *)
(* Cryptor.Decrypt as a state machine                                     *)
(* ---------------------------------------------------------------------- *)
VARIABLES
  data,              \* argument: the untyped record
  passphrase,        \* argument: the passphrase, as code points
  pc,                \* position in Decrypt / decryptNorm
  ks,                \* the typed keystore
  attempt,           \* 0 before the first decryptNorm call, then 1, then 2
  normedPassphrase,  \* argument of the current decryptNorm call
  decryptionKey,     \* decryptNorm's decryptionKey
  cipherMsg,         \* decryptNorm's cipherMsg
  res,               \* Decrypt's res
  err,               \* Decrypt's err
  ret,               \* what Decrypt returned: kind "none", "ok", "err", "panic"
  errs,              \* history: the error of each failed decryptNorm call
  steps              \* history: <<attempt, operation>> in the order carried out

vars ==
  <<data, passphrase, pc, ks, attempt, normedPassphrase, decryptionKey, cipherMsg,
    res, err, ret, errs, steps>>

NoRet == [kind |-> "none", val |-> <<>>, err |-> NoErr]
RetOk(v) == [kind |-> "ok", val |-> v, err |-> NoErr]
RetErr(e) == [kind |-> "err", val |-> <<>>, err |-> e]
RetPanic == [kind |-> "panic", val |-> <<>>, err |-> NoErr]

Tagged(a, ev) == [i \in 1..Len(ev) |-> <<a, ev[i]>>]

Init ==
  /\ data \in Records
  /\ passphrase \in Passphrases
  /\ pc = "start"
  /\ ks = NoKeystore
  /\ attempt = 0
  /\ normedPassphrase = <<>>
  /\ decryptionKey = <<>>
  /\ cipherMsg = <<>>
  /\ res = <<>>
  /\ err = NoErr
  /\ ret = NoRet
  /\ errs = <<>>
  /\ steps = <<>>

\* variant: the required sub-records are not checked
ParseErrorNoRequired(d) ==
  IF d.nil THEN Err("no data supplied")
  ELSE IF ~MarshalOK(d) THEN Err("failed to parse keystore")
  ELSE IF ~UnmarshalOK(d) THEN Err("failed to parse keystore")
  ELSE NoErr

\* the error Decrypt returns before any decryption attempt, NoErr when none
ParseError(d) ==
  IF d.nil THEN Err("no data supplied")
  ELSE IF ~MarshalOK(d) THEN Err("failed to parse keystore")
  ELSE IF ~UnmarshalOK(d) THEN Err("failed to parse keystore")
  ELSE IF Unmarshal(d).Checksum.isNil THEN Err("no checksum")
  ELSE IF Unmarshal(d).Cipher.isNil THEN Err("no cipher")
  ELSE NoErr

\* Decrypt up to the required sub-records
Parse ==
  /\ pc = "start"
  /\ IF ParseError(data) # NoErr
     THEN /\ ret' = RetErr(ParseError(data))
          /\ pc' = "done"
          /\ ks' = ks
     ELSE /\ ks' = Unmarshal(data)
          /\ pc' = "norm"
          /\ ret' = ret
  /\ UNCHANGED <<data, passphrase, attempt, normedPassphrase, decryptionKey, cipherMsg,
                 res, err, errs, steps>>

\* normedPassphrase := normPassphrase(passphrase); call decryptNorm
NormPrimary ==
  /\ pc = "norm"
  /\ normedPassphrase' = normPassphrase(passphrase)
  /\ attempt' = 1
  /\ pc' = "key"
  /\ steps' = steps \o <<(<<1, "normPrimary">>)>>
  /\ UNCHANGED <<data, passphrase, ks, decryptionKey, cipherMsg, res, err, ret, errs>>

\* a block of decryptNorm ended the call: by an error (back in Decrypt with
\* err set) or by a panic (Decrypt does not recover)
BlockEnds(r) ==
  IF r.kind = "panic"
  THEN /\ ret' = RetPanic
       /\ pc' = "done"
       /\ UNCHANGED <<err, errs>>
  ELSE /\ err' = r.err
       /\ errs' = Append(errs, r.err)
       /\ pc' = "returned"
       /\ ret' = ret

\* decryptNorm: the decryption key
DeriveKey ==
  /\ pc = "key"
  /\ LET r == DecryptionKey(ks, normedPassphrase) IN
       /\ steps' = steps \o Tagged(attempt, r.ev)
       /\ IF r.kind = "ok"
          THEN /\ decryptionKey' = r.val
               /\ pc' = "checksum"
               /\ UNCHANGED <<err, errs, ret>>
          ELSE /\ BlockEnds(r)
               /\ decryptionKey' = decryptionKey
  /\ UNCHANGED <<data, passphrase, ks, attempt, normedPassphrase, cipherMsg, res>>

\* decryptNorm: key length, cipher message, checksum
Checksum ==
  /\ pc = "checksum"
  /\ LET r == VerifyChecksum(ks, decryptionKey) IN
       /\ steps' = steps \o Tagged(attempt, r.ev)
       /\ IF r.kind = "ok"
          THEN /\ cipherMsg' = r.val
               /\ pc' = "cipher"
               /\ UNCHANGED <<err, errs, ret>>
          ELSE /\ BlockEnds(r)
               /\ cipherMsg' = cipherMsg
  /\ UNCHANGED <<data, passphrase, ks, attempt, normedPassphrase, decryptionKey, res>>

\* decryptNorm: the cipher; on success back in Decrypt with res set, err nil
Cipher ==
  /\ pc = "cipher"
  /\ LET r == CipherDecrypt(ks, decryptionKey, cipherMsg) IN
       /\ steps' = steps \o Tagged(attempt, r.ev)
       /\ IF r.kind = "ok"
          THEN /\ res' = r.val
               /\ err' = NoErr
               /\ pc' = "returned"
               /\ UNCHANGED <<errs, ret>>
          ELSE /\ BlockEnds(r)
               /\ res' = res
  /\ UNCHANGED <<data, passphrase, ks, attempt, normedPassphrase, decryptionKey, cipherMsg>>

\* variant: no retry
RetryNever(a, e) == FALSE

\* variant: the first call is retried whether or not it failed
RetryAfterFirst(a, e) == a = 1

\* Decrypt retries after a failed call: only the first call is followed by one
RetryAfter(a, e) == a = 1 /\ e # NoErr

\* the first call failed: normedPassphrase := altNormPassphrase(passphrase)
RetryLegacy ==
  /\ pc = "returned"
  /\ RetryAfter(attempt, err)
  /\ normedPassphrase' = altNormPassphrase(passphrase)
  /\ attempt' = 2
  /\ pc' = "key"
  /\ steps' = steps \o <<(<<2, "normLegacy">>)>>
  /\ UNCHANGED <<data, passphrase, ks, decryptionKey, cipherMsg, res, err, ret, errs>>

\* variant: the error of the first call is kept
FirstError(e, es) == es[1]

\* the error Decrypt returns when the retry failed too
FinalError(e, es) == e

\* return nil, err
ReturnError ==
  /\ pc = "returned"
  /\ err # NoErr
  /\ ~RetryAfter(attempt, err)
  /\ ret' = RetErr(FinalError(err, errs))
  /\ pc' = "done"
  /\ UNCHANGED <<data, passphrase, ks, attempt, normedPassphrase, decryptionKey,
                 cipherMsg, res, err, errs, steps>>

\* return res, nil
ReturnSecret ==
  /\ pc = "returned"
  /\ err = NoErr
  /\ ret' = RetOk(res)
  /\ pc' = "done"
  /\ UNCHANGED <<data, passphrase, ks, attempt, normedPassphrase, decryptionKey,
                 cipherMsg, res, err, errs, steps>>

Next ==
  \/ Parse
  \/ NormPrimary
  \/ DeriveKey
  \/ Checksum
  \/ Cipher
  \/ RetryLegacy
  \/ ReturnError
  \/ ReturnSecret

Spec == Init /\ [][Next]_vars

(* ---------------------------------------------------------------------- *)
(* Vocabulary of the properties                                           *)
(* ---------------------------------------------------------------------- *)
Done == pc = "done"

\* the typed errors, by the message the code gives them
NoData == Err("no data supplied")
MalformedRecord == Err("failed to parse keystore")
MissingChecksum == Err("no checksum")
MissingCipher == Err("no cipher")
InvalidKDFSalt == Err("invalid KDF salt")
InvalidKDFParameters == Err("invalid KDF parameters")
UnsupportedKDF(nm) == ErrQ("unsupported KDF", nm)
UnsupportedPRF(nm) == ErrQ("unsupported PBKDF2 PRF", nm)
DerivedKeyTooShort == Err("decryption key must be at least 32 bytes")
InvalidChecksumEncoding == Err("invalid checksum message")
ChecksumMismatch == Err("invalid checksum")
InvalidCipherMessage == Err("invalid cipher message")
InvalidIV == Err("invalid IV")
UnsupportedCipher(nm) == ErrQ("unsupported cipher", nm)

\* the record reaches the decryption attempts
Convertible(d) ==
  /\ ~d.nil
  /\ \A v \in {d.kdf, d.checksum, d.cipher} : v.tag \in {"absent", "object"}

Parsed(d) == Convertible(d) /\ d.checksum.tag = "object" /\ d.cipher.tag = "object"

\* operation op was carried out in attempt a
Did(a, op) == \E i \in 1..Len(steps) : steps[i] = <<a, op>>

CipherOps == {"dispatch", "aesNewCipher", "decodeIV", "newCTR", "xorKeyStream"}

\* the text has a character that is no hex digit
NonHex(t) ==
  \E i \in 1..Len(t) :
    /\ \A j \in 1..16 : LowerDigits[j] # t[i]
    /\ \A j \in 1..16 : UpperDigits[j] # t[i]

\* the two normalisations of the passphrase of the call
Primary == normPassphrase(passphrase)
Legacy == altNormPassphrase(passphrase)

\* the decryption key of the record under normalised bytes, <<>> when there is none
KeyUnder(d, bytes) ==
  LET r == DecryptionKey(Unmarshal(d), bytes) IN
  IF r.kind = "ok" THEN r.val ELSE <<>>

\* the record decrypts under the normalised bytes src
ValidUnder(d, src) == Parsed(d) /\ decryptNorm(Unmarshal(d), src).kind = "ok"

\* bytes [16:32) of the key, <<>> for a key shorter than 32 bytes
KeyPart(key) == IF Len(key) >= 32 THEN [i \in 1..16 |-> key[16 + i]] ELSE <<>>

(* ---------------------------------------------------------------------- *)
(* C1                                                                     *)
(* ---------------------------------------------------------------------- *)
\* C1, as stated: for a valid record and a passphrase whose two normalisations
\* both differ from the bytes the record was encrypted under, Decrypt fails
\* with ChecksumMismatch from the retry and returns no plaintext.
C1_AsStated ==
  Done =>
    \A src \in ProducerBytes :
      (ValidUnder(data, src) /\ Primary # src /\ Legacy # src)
        => /\ ret = RetErr(ChecksumMismatch)
           /\ Len(errs) = 2
           /\ errs[2] = ChecksumMismatch

\* the case of C1 as amended: both normalisations give a key of at least 32
\* bytes whose bytes [16:32) differ from those of the key of src
C1_Case(src) ==
  /\ ValidUnder(data, src)
  /\ \A n \in {Primary, Legacy} :
       /\ KeyPart(KeyUnder(data, n)) # <<>>
       /\ KeyPart(KeyUnder(data, n)) # KeyPart(KeyUnder(data, src))

\* C1, amended: for a valid record and a passphrase for which, under both
\* normalisations, the decryption key has at least 32 bytes and differs in
\* bytes [16:32) from the key the stored checksum was computed with, Decrypt
\* fails with ChecksumMismatch from the retry and never runs the key stream.
C1_WrongPassphrase ==
  Done =>
    \A src \in ProducerBytes :
      C1_Case(src)
        => /\ ret = RetErr(ChecksumMismatch)
           /\ Len(errs) = 2
           /\ errs[2] = ChecksumMismatch
           /\ ~Did(1, "xorKeyStream")
           /\ ~Did(2, "xorKeyStream")

C1_Witness ==
  /\ Done
  /\ \E src \in ProducerBytes : C1_Case(src)
  /\ data.kdf.tag = "absent"
  /\ ret = RetErr(ChecksumMismatch)

(* ---------------------------------------------------------------------- *)
(* C2                                                                     *)
(* ---------------------------------------------------------------------- *)
\* the normalised bytes attempt a was called with
NormOf(a) == IF a = 1 THEN Primary ELSE Legacy

\* attempt a compared a digest that differs from the stored checksum
Mismatch(a) ==
  /\ Did(a, "compare")
  /\ Sha256(KeyPart(DecryptionKey(ks, NormOf(a)).val) \o HexDecode(ks.Cipher.Message))
       # HexDecode(ks.Checksum.Message)

\* attempt a is over
Ended(a) == attempt > a \/ (attempt = a /\ pc \in {"returned", "done"})

\* C2: in every attempt a cipher operation comes only after the checksum
\* comparison of that attempt, and an attempt whose digest differs from the
\* stored checksum carries out no cipher operation and ends with
\* ChecksumMismatch.
C2_ChecksumBeforeCipher ==
  /\ \A i \in 1..Len(steps) :
       steps[i][2] \in CipherOps
         => \E j \in 1..(i - 1) : steps[j] = <<steps[i][1], "compare">>
  /\ \A a \in {1, 2} :
       Mismatch(a)
         => /\ \A op \in CipherOps : ~Did(a, op)
            /\ Ended(a) => (Len(errs) >= a /\ errs[a] = ChecksumMismatch)

C2_Witness ==
  /\ Done
  /\ Mismatch(1)
  /\ Did(2, "xorKeyStream")
  /\ errs = <<ChecksumMismatch>>

(* ---------------------------------------------------------------------- *)
(* C3                                                                     *)
(* ---------------------------------------------------------------------- *)
\* C3: when both attempts fail, Decrypt returns the error of the second
\* attempt, whatever the error of the first.
C3_RetryErrorReturned ==
  (Done /\ Len(errs) = 2) => ret = RetErr(errs[2])

C3_Witness ==
  /\ Done
  /\ Len(errs) = 2
  /\ errs[1] # errs[2]
  /\ ret = RetErr(errs[2])

(* ---------------------------------------------------------------------- *)
(* C4                                                                     *)
(* ---------------------------------------------------------------------- *)
\* C4: for every non-nil record and every passphrase Decrypt ends with secret
\* bytes or a typed error, never abnormally.
C4_Total ==
  (Done /\ ~data.nil) => ret.kind \in {"ok", "err"}

(* ---------------------------------------------------------------------- *)
(* C5                                                                     *)
(* ---------------------------------------------------------------------- *)
\* the text is what hex.DecodeString accepts
ValidHex(t) == ~NonHex(t) /\ Len(t) % 2 = 0

SaltBad ==
  /\ Parsed(data)
  /\ data.kdf.tag = "object"
  /\ data.kdf.params.tag = "object"
  /\ NonHex(data.kdf.params.salt)

IvBad == Parsed(data) /\ data.cipher.params.tag = "object" /\ NonHex(data.cipher.params.iv)
MsgBad == Parsed(data) /\ NonHex(data.cipher.message)
SumBad == Parsed(data) /\ NonHex(data.checksum.message)

\* the legacy attempt has a decryption key of at least 32 bytes
LegacyKeyOK == Len(KeyUnder(data, Legacy)) >= 32

\* the legacy attempt gets past the checksum comparison
LegacyReachesCipher ==
  /\ LegacyKeyOK
  /\ ValidHex(data.cipher.message)
  /\ ValidHex(data.checksum.message)
  /\ Sha256(KeyPart(KeyUnder(data, Legacy)) \o HexDecode(data.cipher.message))
       = HexDecode(data.checksum.message)

\* C5, as stated: a non-hex salt, IV, cipher message or checksum message makes
\* Decrypt fail with the error of that field, whatever the passphrase and the
\* other fields, and no key stream is run.  (Stated of the calls that return;
\* the calls that abort are the matter of C4.)
C5_AsStated ==
  (Done /\ ret.kind # "panic") =>
    /\ SaltBad => ret = RetErr(InvalidKDFSalt)
    /\ IvBad => ret = RetErr(InvalidIV)
    /\ MsgBad => ret = RetErr(InvalidCipherMessage)
    /\ SumBad => ret = RetErr(InvalidChecksumEncoding)
    /\ (SaltBad \/ IvBad \/ MsgBad \/ SumBad)
         => (~Did(1, "xorKeyStream") /\ ~Did(2, "xorKeyStream"))

\* C5, amended: with a non-hex salt, IV, cipher message or checksum message
\* Decrypt never succeeds and never runs the key stream, and the error is the
\* one of the first such field the legacy attempt reaches: InvalidKDFSalt for
\* the salt; InvalidCipherMessage when the legacy key has at least 32 bytes;
\* InvalidChecksumEncoding when moreover the cipher message is hex; InvalidIV
\* when the legacy attempt passes the checksum and the cipher is aes-128-ctr.
C5_MalformedHex ==
  Done =>
    /\ SaltBad => ret = RetErr(InvalidKDFSalt)
    /\ (MsgBad /\ LegacyKeyOK) => ret = RetErr(InvalidCipherMessage)
    /\ (SumBad /\ LegacyKeyOK /\ ValidHex(data.cipher.message))
         => ret = RetErr(InvalidChecksumEncoding)
    /\ (IvBad /\ LegacyReachesCipher /\ data.cipher.function = "aes-128-ctr")
         => ret = RetErr(InvalidIV)
    /\ (SaltBad \/ IvBad \/ MsgBad \/ SumBad)
         => /\ ret.kind # "ok"
            /\ ~Did(1, "xorKeyStream")
            /\ ~Did(2, "xorKeyStream")

C5_Witness ==
  /\ Done
  /\ IvBad
  /\ LegacyReachesCipher
  /\ Did(2, "decodeIV")
  /\ ret = RetErr(InvalidIV)

(* ---------------------------------------------------------------------- *)
(* C6                                                                     *)
(* ---------------------------------------------------------------------- *)
KdfFoo == Parsed(data) /\ data.kdf.tag = "object" /\ data.kdf.function = "foo"
CipherFoo == Parsed(data) /\ data.cipher.function = "foo"
PrfFoo ==
  /\ Parsed(data)
  /\ data.kdf.tag = "object"
  /\ data.kdf.function = "pbkdf2"
  /\ data.kdf.params.tag = "object"
  /\ data.kdf.params.prf = "foo"

\* the salt of the record is decoded
SaltDecodes == data.kdf.params.tag = "object" /\ ValidHex(data.kdf.params.salt)

\* C6, as stated: kdf.function "foo" gives UnsupportedKDF("foo"),
\* cipher.function "foo" gives UnsupportedCipher("foo"), pbkdf2 with prf "foo"
\* gives UnsupportedPRF("foo").  (Stated of the calls that return; the calls
\* that abort are the matter of C4.)
C6_AsStated ==
  (Done /\ ret.kind # "panic") =>
    /\ KdfFoo => ret = RetErr(UnsupportedKDF("foo"))
    /\ CipherFoo => ret = RetErr(UnsupportedCipher("foo"))
    /\ PrfFoo => ret = RetErr(UnsupportedPRF("foo"))

\* C6, amended: with kdf.function "foo", cipher.function "foo" or pbkdf2 with
\* prf "foo" Decrypt never succeeds; it fails with UnsupportedKDF("foo"), resp.
\* UnsupportedPRF("foo"), when kdf.params is present with a hex salt, and with
\* UnsupportedCipher("foo") when the legacy attempt passes the checksum.
C6_UnsupportedIdentifiers ==
  Done =>
    /\ (KdfFoo /\ SaltDecodes) => ret = RetErr(UnsupportedKDF("foo"))
    /\ (PrfFoo /\ SaltDecodes) => ret = RetErr(UnsupportedPRF("foo"))
    /\ (CipherFoo /\ LegacyReachesCipher) => ret = RetErr(UnsupportedCipher("foo"))
    /\ (KdfFoo \/ PrfFoo \/ CipherFoo) => ret.kind # "ok"

C6_Witness ==
  /\ Done
  /\ CipherFoo
  /\ LegacyReachesCipher
  /\ Did(2, "dispatch")
  /\ ret = RetErr(UnsupportedCipher("foo"))

(* ---------------------------------------------------------------------- *)
(* C7                                                                     *)
(* ---------------------------------------------------------------------- *)
\* no normalisation was run and no decryption attempt started
NothingAttempted ==
  /\ attempt = 0
  /\ steps = <<>>
  /\ errs = <<>>
  /\ normedPassphrase = <<>>
  /\ decryptionKey = <<>>

\* C7, as stated: nil gives NoData, an inconvertible record MalformedRecord, a
\* record without checksum MissingChecksum, a record without cipher
\* MissingCipher, and nothing is attempted.
C7_AsStated ==
  Done =>
    /\ data.nil => ret = RetErr(NoData)
    /\ (~data.nil /\ ~Convertible(data)) => ret = RetErr(MalformedRecord)
    /\ (Convertible(data) /\ data.checksum.tag = "absent") => ret = RetErr(MissingChecksum)
    /\ (Convertible(data) /\ data.cipher.tag = "absent") => ret = RetErr(MissingCipher)
    /\ ~Parsed(data) => NothingAttempted

\* C7, amended: as stated, but a record without cipher returns MissingCipher
\* when its checksum is present; without both it returns MissingChecksum.
C7_ParseFailuresImmediate ==
  /\ ~Parsed(data) => NothingAttempted
  /\ Done =>
       /\ data.nil => ret = RetErr(NoData)
       /\ (~data.nil /\ ~Convertible(data)) => ret = RetErr(MalformedRecord)
       /\ (Convertible(data) /\ data.checksum.tag = "absent")
            => ret = RetErr(MissingChecksum)
       /\ (Convertible(data) /\ data.checksum.tag = "object" /\ data.cipher.tag = "absent")
            => ret = RetErr(MissingCipher)

C7_Witness ==
  /\ Done
  /\ Convertible(data)
  /\ data.kdf.tag = "object"
  /\ data.checksum.tag = "object"
  /\ data.cipher.tag = "absent"
  /\ ret = RetErr(MissingCipher)
  /\ NothingAttempted

(* ---------------------------------------------------------------------- *)
(* C8                                                                     *)
(* ---------------------------------------------------------------------- *)
\* the current attempt is over
AttemptOver == attempt >= 1 /\ pc \in {"returned", "done"}

\* the current attempt returned bytes
AttemptSucceeded == err = NoErr /\ ret.kind # "panic"

\* the digest of key bytes [16:32) and the cipher message is the stored checksum
ChecksumMatches(key) ==
  /\ ValidHex(data.cipher.message)
  /\ ValidHex(data.checksum.message)
  /\ Sha256(KeyPart(key) \o HexDecode(data.cipher.message))
       = HexDecode(data.checksum.message)

\* the cipher sub-record is one the cipher step can run
CipherUsable ==
  /\ data.cipher.function = "aes-128-ctr"
  /\ data.cipher.params.tag = "object"
  /\ ValidHex(data.cipher.params.iv)
  /\ Len(data.cipher.params.iv) = 2 * BlockSize

\* C8, as stated: without kdf the key of an attempt is the normalised
\* passphrase, and with at least 32 bytes of it the attempt succeeds exactly
\* when the checksum matches.  (Stated of the attempts that return; the ones
\* that abort are the matter of C4.)
C8_AsStated ==
  (Parsed(data) /\ data.kdf.tag = "absent") =>
    /\ pc \in {"checksum", "cipher"} => decryptionKey = normedPassphrase
    /\ (AttemptOver /\ ret.kind # "panic" /\ Len(normedPassphrase) >= 32)
         => (AttemptSucceeded <=> ChecksumMatches(normedPassphrase))

\* C8, amended: without kdf the key of an attempt is the normalised
\* passphrase, and with at least 32 bytes of it the attempt succeeds exactly
\* when the checksum matches and the cipher is aes-128-ctr with cipher.params
\* present and a hex IV of 16 bytes.
C8_AbsentKDF ==
  (Parsed(data) /\ data.kdf.tag = "absent") =>
    /\ pc \in {"checksum", "cipher"} => decryptionKey = normedPassphrase
    /\ (AttemptOver /\ Len(normedPassphrase) >= 32)
         => (AttemptSucceeded <=> (ChecksumMatches(normedPassphrase) /\ CipherUsable))

C8_Witness ==
  /\ Done
  /\ data.kdf.tag = "absent"
  /\ Len(normedPassphrase) = 32
  /\ ChecksumMatches(normedPassphrase)
  /\ decryptionKey = normedPassphrase
  /\ ret.kind = "ok"

(* ---------------------------------------------------------------------- *)
(* C9                                                                     *)
(* ---------------------------------------------------------------------- *)
\* the KDF descriptors records are encrypted with, and none
GoodKdfs == {NoValue, ScryptGood, Pbkdf2Good}

\* the record is secret encrypted under the normalised bytes src
EncryptedFrom(kdfV, src, secret) ==
  /\ data = Record(kdfV, src, secret, "none", "none")
  /\ Len(KeyUnder(data, src)) >= 32

\* C9, as stated: for a passphrase whose normalisations differ, the record
\* encrypted from the legacy one decrypts through the retry, the record
\* encrypted from the primary one decrypts at once, both to the same secret.
C9_AsStated ==
  (Done /\ Primary # Legacy) =>
    \A kdfV \in GoodKdfs, secret \in Secrets :
      /\ EncryptedFrom(kdfV, Legacy, secret) => (ret = RetOk(secret) /\ attempt = 2)
      /\ EncryptedFrom(kdfV, Primary, secret)
           => (ret = RetOk(secret) /\ attempt = 1 /\ errs = <<>>)

\* C9, amended: as stated, for a passphrase whose normalisations give
\* decryption keys that differ within bytes [16:32) (or a primary key shorter
\* than 32 bytes).
C9_DualNormalization ==
  (Done /\ Primary # Legacy) =>
    \A kdfV \in GoodKdfs, secret \in Secrets :
      /\ (/\ EncryptedFrom(kdfV, Legacy, secret)
          /\ KeyPart(KeyUnder(data, Primary)) # KeyPart(KeyUnder(data, Legacy)))
           => (ret = RetOk(secret) /\ attempt = 2 /\ Len(errs) = 1)
      /\ EncryptedFrom(kdfV, Primary, secret)
           => (ret = RetOk(secret) /\ attempt = 1 /\ errs = <<>>)

C9_Witness ==
  /\ Done
  /\ Primary # Legacy
  /\ \E secret \in Secrets : EncryptedFrom(ScryptGood, Legacy, secret) /\ ret = RetOk(secret)
  /\ attempt = 2
  /\ errs = <<ChecksumMismatch>>

(* ---------------------------------------------------------------------- *)
(* C10                                                                    *)
(* ---------------------------------------------------------------------- *)
\* the normalisations run so far, in order
NormSteps == SelectSeq(steps, LAMBDA x : x[2] \in {"normPrimary", "normLegacy"})

\* C10: Decrypt succeeds exactly when the record parses and an attempt passes
\* every step; there are at most two attempts, primary first, legacy only
\* after the primary failed; the bytes returned are the output of the first
\* attempt that succeeds, as long as the decoded cipher message.
C10_NoDegradedSuccess ==
  /\ NormSteps \in {<<>>, <<(<<1, "normPrimary">>)>>,
                    <<(<<1, "normPrimary">>), (<<2, "normLegacy">>)>>}
  /\ attempt = Len(NormSteps)
  /\ attempt = 2 => (Len(errs) >= 1 /\ errs[1] # NoErr)
  /\ Done =>
       /\ ret.kind = "ok" <=>
            /\ Parsed(data)
            /\ \/ decryptNorm(Unmarshal(data), Primary).kind = "ok"
               \/ decryptNorm(Unmarshal(data), Legacy).kind = "ok"
       /\ ret.kind = "ok" =>
            LET first == decryptNorm(ks, Primary)
                second == decryptNorm(ks, Legacy)
            IN /\ ret.val = IF first.kind = "ok" THEN first.val ELSE second.val
               /\ attempt = IF first.kind = "ok" THEN 1 ELSE 2
               /\ Len(ret.val) = Len(HexDecode(ks.Cipher.Message))

C10_Witness ==
  /\ Done
  /\ ret.kind = "ok"
  /\ attempt = 2
  /\ Len(ret.val) = MaxSecretLen
  /\ decryptNorm(ks, Primary).kind = "err"

====
